---------------------------- MODULE Spec2Model ----------------------------
(***************************************************************************)
(* Healing Frequency Generator (src/healing.py): the signal generators,    *)
(* the WAV encoder create_audio_file, the preset table and the Streamlit   *)
(* script with its Generate handler.                                       *)
(*                                                                         *)
(* Three specifications:                                                   *)
(*   EncSpec  create_audio_file applied to sample buffers of float64       *)
(*            values (the arithmetic of line 63 in IEEE-754 binary64,      *)
(*            round-to-nearest-even, carried out on 15-bit limbs);         *)
(*   GenSpec  the three generators applied to their parameters (the time   *)
(*            base np.linspace builds, and the frame count);               *)
(*   Spec     the Streamlit script: widgets, reruns, the Generate handler. *)
(***************************************************************************)
EXTENDS Integers, Sequences, FiniteSets, TLC

(***************************************************************************)
(* Natural numbers of any size, as little-endian sequences of limbs        *)
(* (radix 2^15), with no high zero limb.  float64 mantissas have 53 bits   *)
(* and their products more, which the 32-bit integers at hand cannot hold. *)
(***************************************************************************)
LimbBits == 15

Radix == 2^LimbBits

RECURSIVE BTrim(_)
BTrim(a) ==
    IF a = <<>> \/ a[Len(a)] # 0 THEN a ELSE BTrim(SubSeq(a, 1, Len(a) - 1))

RECURSIVE BCmpFrom(_, _, _)
BCmpFrom(a, b, i) ==
    IF i = 0 THEN 0
    ELSE IF a[i] > b[i] THEN 1
    ELSE IF a[i] < b[i] THEN -1
    ELSE BCmpFrom(a, b, i - 1)

\* -1, 0 or 1 as a < b, a = b, a > b
BCmp(a, b) ==
    IF Len(a) > Len(b) THEN 1
    ELSE IF Len(a) < Len(b) THEN -1
    ELSE BCmpFrom(a, b, Len(a))

RECURSIVE BMulFrom(_, _, _, _)
BMulFrom(a, c, i, carry) ==
    IF i > Len(a)
    THEN (IF carry = 0 THEN <<>> ELSE <<carry>>)
    ELSE LET v == a[i] * c + carry
         IN  <<v % Radix>> \o BMulFrom(a, c, i + 1, v \div Radix)

\* a * c for 0 <= c < Radix
BMulSmall(a, c) == BTrim(BMulFrom(a, c, 1, 0))

BDouble(a) == BMulSmall(a, 2)

RECURSIVE BAddFrom(_, _, _)
BAddFrom(a, i, carry) ==
    IF i > Len(a)
    THEN (IF carry = 0 THEN <<>> ELSE <<carry>>)
    ELSE LET v == a[i] + carry
         IN  <<v % Radix>> \o BAddFrom(a, i + 1, v \div Radix)

\* a + c for 0 <= c < Radix
BAddSmall(a, c) == BAddFrom(a, 1, c)

RECURSIVE BSubFrom(_, _, _, _)
BSubFrom(a, b, i, borrow) ==
    IF i > Len(a) THEN <<>>
    ELSE LET bi == IF i <= Len(b) THEN b[i] ELSE 0
             v  == a[i] - bi - borrow
         IN  IF v < 0
             THEN <<v + Radix>> \o BSubFrom(a, b, i + 1, 1)
             ELSE <<v>> \o BSubFrom(a, b, i + 1, 0)

\* a - b for a >= b
BSub(a, b) == BTrim(BSubFrom(a, b, 1, 0))

RECURSIVE BitLenInt(_)
BitLenInt(x) == IF x = 0 THEN 0 ELSE 1 + BitLenInt(x \div 2)

BBitLen(a) ==
    IF a = <<>> THEN 0 ELSE (Len(a) - 1) * LimbBits + BitLenInt(a[Len(a)])

BLimb(a, i) == IF i >= 1 /\ i <= Len(a) THEN a[i] ELSE 0

\* bit i (bit 0 the lowest) of a
BBit(a, i) == (BLimb(a, i \div LimbBits + 1) \div 2^(i % LimbBits)) % 2

\* floor(a / 2^n)
BShr(a, n) ==
    LET q == n \div LimbBits
        r == n % LimbBits
    IN  IF q >= Len(a) THEN <<>>
        ELSE BTrim([i \in 1..(Len(a) - q) |->
                      (a[i + q] \div 2^r)
                      + (BLimb(a, i + q + 1) % 2^r) * 2^(LimbBits - r)])

\* a mod 2^n = 0
BLowZero(a, n) ==
    /\ \A i \in 1..(n \div LimbBits) : BLimb(a, i) = 0
    /\ BLimb(a, n \div LimbBits + 1) % 2^(n % LimbBits) = 0

\* a mod 2^16, as an integer
BLow16(a) == (BLimb(a, 1) + (BLimb(a, 2) % 2) * Radix) % 65536

(***************************************************************************)
(* float64.  Zero is [sgn |-> 0, man |-> <<>>, exp |-> 0]; any other       *)
(* finite value is sgn * man * 2^exp with 2^52 <= man < 2^53; NaN is the   *)
(* value 0/0 yields.  Exponent overflow and subnormals are outside the     *)
(* values used here.                                                       *)
(***************************************************************************)
MantBits == 53

FZero == [sgn |-> 0, man |-> <<>>, exp |-> 0]

FNaN == [sgn |-> 2, man |-> <<>>, exp |-> 0]

IsNaN(x) == x.sgn = 2

\* sgn * P * 2^e rounded to nearest, ties to even, for P of MantBits bits or more
FRound(sgn, P, e) ==
    LET sh     == BBitLen(P) - MantBits
        Q      == BShr(P, sh)
        guard  == sh > 0 /\ BBit(P, sh - 1) = 1
        sticky == sh > 1 /\ ~BLowZero(P, sh - 1)
        up     == guard /\ (sticky \/ BBit(Q, 0) = 1)
        Q1     == IF up THEN BAddSmall(Q, 1) ELSE Q
    IN  IF BBitLen(Q1) > MantBits
        THEN [sgn |-> sgn, man |-> BShr(Q1, 1), exp |-> e + sh + 1]
        ELSE [sgn |-> sgn, man |-> Q1, exp |-> e + sh]

\* x * c for an integer c, 0 < c < Radix
FMulInt(x, c) ==
    IF IsNaN(x) \/ x.sgn = 0 THEN x
    ELSE FRound(x.sgn, BMulSmall(x.man, c), x.exp)

\* a mantissa (at most 54 bits) as <<high bits, low 27 bits>>, two plain integers
SplitAt == 27

ManHiLo(man) ==
    <<BLimb(man, 2) \div 2^12 + BLimb(man, 3) * 2^3 + BLimb(man, 4) * 2^18,
      BLimb(man, 1) + (BLimb(man, 2) % 2^12) * Radix>>

RECURSIVE DivChunk(_, _, _, _, _, _)
\* n more quotient bits of r / b by shift and subtract, r < b: <<quotient, r.hi, r.lo>>
DivChunk(rh, rl, bh, bl, q, n) ==
    IF n = 0 THEN <<q, rh, rl>>
    ELSE LET h2  == 2 * rh + rl \div 2^(SplitAt - 1)
             l2  == (2 * rl) % 2^SplitAt
             ge  == h2 > bh \/ (h2 = bh /\ l2 >= bl)
             brw == IF l2 < bl THEN 1 ELSE 0
         IN  IF ge
             THEN DivChunk(h2 - bh - brw, l2 - bl + brw * 2^SplitAt, bh, bl, 2 * q + 1, n - 1)
             ELSE DivChunk(h2, l2, bh, bl, 2 * q, n - 1)

\* x / y, correctly rounded; 0/0 is NaN (y = 0 only with x = 0 here: y is the peak).
\* The quotient of the mantissas is taken to 4 limbs below the binary point, a
\* sticky bit for the remainder is appended, and FRound rounds the lot.
FDiv(x, y) ==
    IF IsNaN(x) \/ IsNaN(y) \/ y.sgn = 0 THEN FNaN
    ELSE IF x.sgn = 0 THEN FZero
    ELSE LET a   == ManHiLo(x.man)
             b   == ManHiLo(y.man)
             ge  == a[1] > b[1] \/ (a[1] = b[1] /\ a[2] >= b[2])
             brw == IF a[2] < b[2] THEN 1 ELSE 0
             r0  == IF ge THEN <<a[1] - b[1] - brw, a[2] - b[2] + brw * 2^SplitAt>> ELSE a
             d4  == DivChunk(r0[1], r0[2], b[1], b[2], 0, LimbBits)
             d3  == DivChunk(d4[2], d4[3], b[1], b[2], 0, LimbBits)
             d2  == DivChunk(d3[2], d3[3], b[1], b[2], 0, LimbBits)
             d1  == DivChunk(d2[2], d2[3], b[1], b[2], 0, LimbBits)
             Q   == BTrim(<<d1[1], d2[1], d3[1], d4[1], IF ge THEN 1 ELSE 0>>)
             stk == IF d1[2] = 0 /\ d1[3] = 0 THEN 0 ELSE 1
         IN  FRound(x.sgn * y.sgn, BAddSmall(BDouble(Q), stk),
                    x.exp - y.exp - 4 * LimbBits - 1)

FAbs(x) == IF x.sgn = -1 THEN [x EXCEPT !.sgn = 1] ELSE x

\* x < y for x, y >= 0, neither NaN
FLessAbs(x, y) ==
    IF y.sgn = 0 THEN FALSE
    ELSE IF x.sgn = 0 THEN TRUE
    ELSE IF x.exp # y.exp THEN x.exp < y.exp
    ELSE BCmp(x.man, y.man) < 0

\* the integer part of |x|, modulo 2^16 (|x| < 2^52 here: exp < 0)
IntPart16(x) ==
    IF x.sgn = 0 \/ -x.exp >= MantBits THEN 0
    ELSE BLow16(BShr(x.man, -x.exp))

\* a 16-bit pattern as a signed 16-bit integer
Wrap16(v) == ((v + 32768) % 65536) - 32768


(***************************************************************************)
(* Configuration (lines 8-10).                                             *)
(***************************************************************************)
SAMPLE_RATE == 44100

MAX_DURATION_MINUTES == 120

\* frequencies are in hundredths of a hertz, the step of the float number input
\* "Beat Frequency (Hz)"
Hz(x) == 100 * x

VARIABLES
    enc_signal,      \* create_audio_file's argument: a sequence of frames <<left, right>>
    enc_factor,      \* the factor k of the scaled call create_audio_file(k * signal)
    enc_out,         \* outcome of create_audio_file(signal)
    enc_out_scaled   \* outcome of create_audio_file(k * signal)

encVars == <<enc_signal, enc_factor, enc_out, enc_out_scaled>>

VARIABLES
    gen_call,        \* a generator call: the function and its arguments
    gen_out          \* its outcome

genVars == <<gen_call, gen_out>>

VARIABLES
    res_config,      \* a configuration handed to the dispatch of the Generate handler
    res_duration,    \* the slider's minutes of that run
    res_out          \* what the dispatch did with it

resVars == <<res_config, res_duration, res_out>>

VARIABLES
    preset,            \* the selectbox "Choose Preset"
    duration,          \* the slider "Duration (minutes)"
    sound_type,        \* the radio "Sound Type" of the custom settings
    custom_base,       \* the number input "Base Frequency (Hz)"
    custom_secondary,  \* the number input "Delta Frequency (Hz)" or "Beat Frequency (Hz)"
    invoked,           \* the generator call of the last script run, if any
    generated,         \* what that call returned
    audio_bytes,       \* what create_audio_file returned for it
    shown,             \* what the Generate section of the last run put on the page
    script             \* how the last run of the script ended

appVars == <<preset, duration, sound_type, custom_base, custom_secondary,
             invoked, generated, audio_bytes, shown, script>>

vars == <<encVars, genVars, resVars, appVars>>

NoCall == [status |-> "none"]

Raised(e) == [status |-> "raised", error |-> e]

(***************************************************************************)
(* create_audio_file (lines 60-65).                                        *)
(***************************************************************************)
\* all samples of a buffer, left and right of frame 1 first
Samples(signal) == [i \in 1..(2 * Len(signal)) |-> signal[(i + 1) \div 2][2 - (i % 2)]]

RECURSIVE MaxAbsFrom(_, _, _)
MaxAbsFrom(xs, i, m) ==
    IF i > Len(xs) THEN m
    ELSE MaxAbsFrom(xs, i + 1, IF FLessAbs(m, FAbs(xs[i])) THEN FAbs(xs[i]) ELSE m)

\* np.max(np.abs(signal)), for a buffer of one frame or more
Peak(signal) == MaxAbsFrom(Samples(signal), 1, FZero)

\* (mutant of ScaledSample: the division by the peak left out)
ScaledSampleNoPeak(x, peak) == FMulInt(x, 32767)

\* signal / np.max(np.abs(signal)) * 32767, one sample
ScaledSample(x, peak) == FMulInt(FDiv(x, peak), 32767)

\* what casting NaN to int16 may give: the cast is undefined in C
NanCastOutcomes == {0, -32768}

\* np.int16(x): the C cast, toward zero, wrapping to 16 bits; NaN gives nanAs
Int16Cast(x, nanAs) == IF IsNaN(x) THEN nanAs ELSE Wrap16(x.sgn * IntPart16(x))

\* the two bytes of a 16-bit sample, low byte first
BytesLE16(v) == <<(v % 65536) % 256, (v % 65536) \div 256>>

RECURSIVE DataBytes(_, _)
DataBytes(scaled, i) ==
    IF i > Len(scaled) THEN <<>> ELSE BytesLE16(scaled[i]) \o DataBytes(scaled, i + 1)

\* scipy.io.wavfile.write(audio_bytes, SAMPLE_RATE, scaled) for an (N, 2) int16 array
WavFile(rate, scaled) ==
    [riffSize   |-> 36 + 2 * Len(scaled),
     format     |-> 1,
     channels   |-> 2,
     rate       |-> rate,
     byteRate   |-> rate * 4,
     blockAlign |-> 4,
     bits       |-> 16,
     dataSize   |-> 2 * Len(scaled),
     data       |-> DataBytes(scaled, 1)]

ScaledArray(signal, nanAs) ==
    LET xs   == Samples(signal)
        peak == Peak(signal)
    IN  [i \in 1..Len(xs) |-> Int16Cast(ScaledSample(xs[i], peak), nanAs)]

\* np.max of an empty array raises ValueError; otherwise the WAV bytes are returned
create_audio_file(signal, nanAs) ==
    IF Len(signal) = 0 THEN Raised("ValueError")
    ELSE LET scaled == ScaledArray(signal, nanAs)
         IN  [status |-> "returned",
              scaled |-> scaled,
              bytes  |-> WavFile(SAMPLE_RATE, scaled)]

(***************************************************************************)
(* EncSpec: create_audio_file on the buffers of at most MaxFrames frames   *)
(* over SampleValues, and on the same buffer scaled by 1..MaxScale.        *)
(***************************************************************************)
MaxFrames == 1

MaxScale == 5

\*  0.7
F0_7 == [sgn |-> 1, man |-> <<26214, 19660, 6553, 179>>, exp |-> -53]

\*  22936.9
F22936_9 == [sgn |-> 1, man |-> <<6554, 13107, 6374, 179>>, exp |-> -38]

\* -0.26
FNeg0_26 == [sgn |-> -1, man |-> <<28836, 5242, 3932, 133>>, exp |-> -54]

SampleValues == {FZero, F0_7, F22936_9, FNeg0_26}

Frames == SampleValues \X SampleValues

Buffers == UNION {[1..n -> Frames] : n \in 0..MaxFrames}

\* k * signal
Scale(k, signal) ==
    [i \in 1..Len(signal) |-> <<FMulInt(signal[i][1], k), FMulInt(signal[i][2], k)>>]

EncInit ==
    /\ enc_signal \in Buffers
    /\ enc_factor \in 1..MaxScale
    /\ enc_out = NoCall
    /\ enc_out_scaled = NoCall

CallCreateAudioFile ==
    /\ enc_out = NoCall
    /\ \E nanAs \in NanCastOutcomes : enc_out' = create_audio_file(enc_signal, nanAs)
    /\ UNCHANGED <<enc_signal, enc_factor, enc_out_scaled, genVars, resVars, appVars>>

CallCreateAudioFileScaled ==
    /\ enc_out_scaled = NoCall
    /\ \E nanAs \in NanCastOutcomes :
          enc_out_scaled' = create_audio_file(Scale(enc_factor, enc_signal), nanAs)
    /\ UNCHANGED <<enc_signal, enc_factor, enc_out, genVars, resVars, appVars>>

EncNext == CallCreateAudioFile \/ CallCreateAudioFileScaled


(***************************************************************************)
(* The generators (lines 18-58).  Times, durations and amplitudes are      *)
(* exact rationals <<numerator, denominator>>; a sample is kept as the     *)
(* expression the code evaluates (amplitude, frequencies, time), since     *)
(* only sin(0) = 0 is needed of the sine.                                  *)
(***************************************************************************)
RatEq(a, b) == a[1] * b[2] = b[1] * a[2]

RatLess(a, b) == a[1] * b[2] < b[1] * a[2]

\* int(x) of Python: toward zero
IntTrunc(num, den) == IF num >= 0 THEN num \div den ELSE -((-num) \div den)

\* int(SAMPLE_RATE * duration)
FrameCount(dur) == IntTrunc(SAMPLE_RATE * dur[1], dur[2])

\* np.linspace(0, stop, num)[n], 0 <= n < num: the end point stop is included,
\* so the step is stop / (num - 1)
LinspaceAt(stop, num, n) ==
    IF num = 1 THEN <<0, 1>> ELSE <<n * stop[1], stop[2] * (num - 1)>>

\* np.linspace(0.8, 0.2, len(t))[n]: 0.8 less 0.6 * n / (num - 1), in tenths
EnvAt(num, n) ==
    [from |-> 8, less |-> IF num = 1 THEN <<0, 1>> ELSE <<6 * n, num - 1>>]

\* amplitude * sin(2 pi freq t)
Sine(amplitude, freq, t) == [amp |-> amplitude, freq |-> freq, t |-> t]

\* a sample is exactly zero: a zero amplitude, or the sine of zero
SineIsZero(x) == x.amp[1] = 0 \/ x.freq = 0 \/ x.t[1] = 0

HeadFrames == 3

\* the frames kept of a buffer of num frames: the first HeadFrames of them
HeadIndexes(num) == 0..((IF num < HeadFrames THEN num ELSE HeadFrames) - 1)

Returned(num, stop, frames) ==
    [status |-> "returned",
     frames |-> num,
     head   |-> frames,
     tLast  |-> IF num <= 1 THEN <<0, 1>> ELSE stop]

\* lines 18-23
generate_binaural_beat(base_freq, delta_freq, dur, amplitude) ==
    LET num == FrameCount(dur)
    IN  IF num < 0 THEN Raised("ValueError")
        ELSE Returned(num, dur,
               [n \in HeadIndexes(num) |->
                  LET t == LinspaceAt(dur, num, n)
                  IN  [t     |-> t,
                       left  |-> Sine(amplitude, base_freq, t),
                       right |-> Sine(amplitude, base_freq + delta_freq, t)]])

\* lines 25-31: the carrier gated by the sign of the beat sine, on both channels
generate_isochronic(base_freq, beat_freq, dur, amplitude) ==
    LET num == FrameCount(dur)
    IN  IF num < 0 THEN Raised("ValueError")
        ELSE Returned(num, dur,
               [n \in HeadIndexes(num) |->
                  LET t      == LinspaceAt(dur, num, n)
                      signal == [amp |-> amplitude, freq |-> base_freq,
                                 gate |-> beat_freq, t |-> t]
                  IN  [t |-> t, left |-> signal, right |-> signal]])

\* lines 33-58: eight voices, each detuned by a random factor (per mille here),
\* under a decaying envelope, the same mix on both channels
Voices == 0..7

generate_choir(dur, base_freq, amplitude, detune) ==
    LET num == FrameCount(dur)
    IN  IF num < 0 THEN Raised("ValueError")
        ELSE Returned(num, dur,
               [n \in HeadIndexes(num) |->
                  LET t      == LinspaceAt(dur, num, n)
                      signal == [amp |-> amplitude, freq |-> base_freq,
                                 detune |-> detune, env |-> EnvAt(num, n), t |-> t]
                  IN  [t |-> t, left |-> signal, right |-> signal]])

(***************************************************************************)
(* GenSpec: one call of one generator, its arguments drawn from the sets   *)
(* below.  Durations are whole seconds, or hundred-thousandths of a second *)
(* around one sample period (1/44100 s = 2.27e-5 s), or negative.          *)
(***************************************************************************)
GenDurations ==
    {<<0, 1>>, <<1, 1>>, <<60, 1>>, <<900, 1>>, <<7200, 1>>, <<-1, 1>>,
     <<1, 100000>>, <<2, 100000>>, <<3, 100000>>, <<5, 100000>>, <<7, 100000>>,
     <<10, 100000>>}

GenBases == {Hz(50), Hz(150), Hz(432), Hz(1000)}

GenSecondaries == {10, Hz(4), Hz(15), Hz(40)}

GenAmplitudes == {<<1, 10>>, <<2, 10>>, <<3, 10>>}

\* detune = 1 + (np.random.rand() * 0.02 - 0.01), per mille
DetuneChoices == {990, 1009}

GenInit ==
    /\ gen_out = NoCall
    /\ \/ \E b \in GenBases, s \in GenSecondaries, d \in GenDurations, a \in GenAmplitudes :
             gen_call = [fn |-> "generate_binaural_beat", base |-> b, secondary |-> s,
                         duration |-> d, amplitude |-> a]
       \/ \E b \in GenBases, s \in GenSecondaries, d \in GenDurations, a \in GenAmplitudes :
             gen_call = [fn |-> "generate_isochronic", base |-> b, secondary |-> s,
                         duration |-> d, amplitude |-> a]
       \/ \E b \in GenBases, d \in GenDurations, a \in GenAmplitudes :
             gen_call = [fn |-> "generate_choir", base |-> b, secondary |-> 0,
                         duration |-> d, amplitude |-> a]

CallBinaural ==
    /\ gen_out = NoCall
    /\ gen_call.fn = "generate_binaural_beat"
    /\ gen_out' = generate_binaural_beat(gen_call.base, gen_call.secondary,
                                         gen_call.duration, gen_call.amplitude)
    /\ UNCHANGED <<gen_call, encVars, resVars, appVars>>

CallIsochronic ==
    /\ gen_out = NoCall
    /\ gen_call.fn = "generate_isochronic"
    /\ gen_out' = generate_isochronic(gen_call.base, gen_call.secondary,
                                      gen_call.duration, gen_call.amplitude)
    /\ UNCHANGED <<gen_call, encVars, resVars, appVars>>

CallChoir ==
    /\ gen_out = NoCall
    /\ gen_call.fn = "generate_choir"
    /\ \E detune \in [Voices -> DetuneChoices] :
          gen_out' = generate_choir(gen_call.duration, gen_call.base,
                                    gen_call.amplitude, detune)
    /\ UNCHANGED <<gen_call, encVars, resVars, appVars>>

GenNext == CallBinaural \/ CallIsochronic \/ CallChoir

(***************************************************************************)
(* The preset table (lines 68-76).                                         *)
(***************************************************************************)
PRESETS ==
    [p \in {"Angelic Choir (A=220Hz)", "Celestial Harmonics (A=440Hz)",
            "Deep Meditation (7Hz Theta)", "Relaxation (10Hz Alpha)",
            "Focus (15Hz Beta)", "Deep Sleep (4Hz Delta)", "Custom Configuration"} |->
        CASE p = "Angelic Choir (A=220Hz)"       -> [type |-> "choir", base |-> Hz(220)]
          [] p = "Celestial Harmonics (A=440Hz)" -> [type |-> "choir", base |-> Hz(440)]
          [] p = "Deep Meditation (7Hz Theta)"   ->
                 [type |-> "binaural", base |-> Hz(200), delta |-> Hz(7)]
          [] p = "Relaxation (10Hz Alpha)"       ->
                 [type |-> "binaural", base |-> Hz(300), delta |-> Hz(10)]
          [] p = "Focus (15Hz Beta)"             ->
                 [type |-> "isochronic", base |-> Hz(432), beat |-> Hz(15)]
          [] p = "Deep Sleep (4Hz Delta)"        ->
                 [type |-> "binaural", base |-> Hz(150), delta |-> Hz(4)]
          [] OTHER                                -> [type |-> "custom"]]

PresetNames == DOMAIN PRESETS

(***************************************************************************)
(* The script's settings (lines 95-123).                                   *)
(***************************************************************************)
Min(a, b) == IF a < b THEN a ELSE b

\* (mutant of DurationSeconds: the minutes taken for seconds)
DurationSecondsNoConversion(minutes) == Min(minutes, MAX_DURATION_MINUTES * 60)

\* line 101
DurationSeconds(minutes) == Min(minutes * 60, MAX_DURATION_MINUTES * 60)

SoundTypes == {"Binaural", "Isochronic", "Choir"}

\* the number inputs of lines 113-123: <<min, max, default>>
BaseInput(type) ==
    IF type = "Choir" THEN <<Hz(110), Hz(880), Hz(220)>> ELSE <<Hz(50), Hz(1000), Hz(432)>>

SecondaryInput(type) ==
    IF type = "Binaural" THEN <<Hz(1), Hz(30), Hz(7)>> ELSE <<10, Hz(40), Hz(10)>>

\* the values tried of a number input: its ends and its default
InputChoices(input) == {input[1], input[3], input[2]}

EmptyConfig == [k \in {} |-> 0]

\* lines 104-123
CustomConfig(p, type, base, secondary) ==
    IF PRESETS[p].type # "custom" THEN EmptyConfig
    ELSE IF type = "Choir" THEN [type |-> type, base |-> base]
    ELSE IF type = "Binaural" THEN [type |-> type, base |-> base, delta |-> secondary]
    ELSE [type |-> type, base |-> base, beat |-> secondary]

(***************************************************************************)
(* The Generate handler (lines 126-160).                                   *)
(***************************************************************************)
\* (mutant of Get: the default taken whether or not the key is there)
GetDefault(config, key, default) == default

\* config.get(key, default)
Get(config, key, default) == IF key \in DOMAIN config THEN config[key] ELSE default

\* str.lower() on the type names in use
Lower(str) ==
    CASE str = "Binaural"   -> "binaural"
      [] str = "Isochronic" -> "isochronic"
      [] str = "Choir"      -> "choir"
      [] OTHER              -> str

\* lines 129-133
SelectConfig(p, custom_config) ==
    IF PRESETS[p].type # "custom" THEN PRESETS[p] ELSE custom_config

Invocation(fn, base, secondary, seconds, amplitude) ==
    [status |-> "called", fn |-> fn, base |-> base, secondary |-> secondary,
     duration |-> seconds, amplitude |-> amplitude]

\* lines 136-143: the generator call the configuration leads to, the amplitude
\* the default of the generator's signature; config["type"] and config["base"]
\* raise KeyError when missing
Dispatch(config, duration_seconds) ==
    IF "type" \notin DOMAIN config THEN Raised("KeyError")
    ELSE IF Lower(config["type"]) = "choir"
    THEN Invocation("generate_choir", Get(config, "base", Hz(220)), 0,
                    duration_seconds, <<2, 10>>)
    ELSE IF "base" \notin DOMAIN config THEN Raised("KeyError")
    ELSE IF Lower(config["type"]) = "binaural"
    THEN Invocation("generate_binaural_beat", config["base"], Get(config, "delta", Hz(7)),
                    duration_seconds, <<1, 10>>)
    ELSE Invocation("generate_isochronic", config["base"], Get(config, "beat", Hz(10)),
                    duration_seconds, <<3, 10>>)

\* the call carried out
Generate(call, detune) ==
    CASE call.fn = "generate_choir" ->
             generate_choir(<<call.duration, 1>>, call.base, call.amplitude, detune)
      [] call.fn = "generate_binaural_beat" ->
             generate_binaural_beat(call.base, call.secondary, <<call.duration, 1>>,
                                    call.amplitude)
      [] OTHER ->
             generate_isochronic(call.base, call.secondary, <<call.duration, 1>>,
                                 call.amplitude)

\* The arrays of a run take up to gigabytes (44100 * 7200 frames of two float64
\* at the longest duration); an allocation may fail with MemoryError in the
\* generator or in create_audio_file.
FailurePoints == {"none", "generate", "create_audio_file"}

\* (mutant of HandlerShows: the player put on the page before the bytes exist)
HandlerShowsPlayerFirst(failed) ==
    IF failed = "generate" THEN {"error"}
    ELSE IF failed = "create_audio_file" THEN {"audio", "error"}
    ELSE {"audio", "download", "success"}

\* lines 128-160: what the handler puts on the page; failed is where an exception
\* came up ("dispatch": a KeyError), "none" when none did.  st.audio,
\* st.download_button and st.success follow create_audio_file and are reached
\* only when it returned.
HandlerShows(failed) ==
    IF failed = "none" THEN {"audio", "download", "success"} ELSE {"error"}

\* what the script keeps of a generator's outcome: create_audio_file reads the
\* whole array, of which the frame count decides whether np.max raises
Summary(out) ==
    IF out.status = "returned" THEN [status |-> "returned", frames |-> out.frames] ELSE out

NoDetune == [v \in Voices |-> 1000]

\* create_audio_file on a generated array, of which the frame count is kept:
\* np.max raises on an empty one, otherwise the WAV holds 4 bytes a frame
AudioBytesOf(out) ==
    IF out.frames = 0 THEN Raised("ValueError")
    ELSE [status |-> "returned", riffSize |-> 36 + 4 * out.frames,
          dataSize |-> 4 * out.frames]

(***************************************************************************)
(* Spec: the Streamlit script.  Every interaction with a widget runs the   *)
(* script again from the top; st.button is true only in the run its click  *)
(* started, so any other run leaves the Generate section empty.            *)
(***************************************************************************)
AppInit ==
    /\ preset = "Angelic Choir (A=220Hz)"
    /\ duration = 15
    /\ sound_type = "Binaural"
    /\ custom_base = BaseInput("Binaural")[3]
    /\ custom_secondary = SecondaryInput("Binaural")[3]
    /\ invoked = NoCall
    /\ generated = NoCall
    /\ audio_bytes = NoCall
    /\ shown = {}
    /\ script = "completed"

\* a run of the script without the button
Rerun ==
    /\ invoked' = NoCall
    /\ generated' = NoCall
    /\ audio_bytes' = NoCall
    /\ shown' = {}
    /\ script' = "completed"
    /\ UNCHANGED <<encVars, genVars, resVars>>

SelectPreset ==
    \E p \in PresetNames \ {preset} :
        /\ preset' = p
        /\ Rerun
        /\ UNCHANGED <<duration, sound_type, custom_base, custom_secondary>>

\* the positions tried of the slider st.slider(..., 1, MAX_DURATION_MINUTES, 15)
SliderChoices == {1, 2, 15, 60, MAX_DURATION_MINUTES - 1, MAX_DURATION_MINUTES}

MoveSlider ==
    \E d \in SliderChoices \ {duration} :
        /\ duration' = d
        /\ Rerun
        /\ UNCHANGED <<preset, sound_type, custom_base, custom_secondary>>

\* the custom settings are on the page only under the preset "Custom Configuration";
\* the number inputs of another sound type are other widgets, at their defaults
SetSoundType ==
    /\ PRESETS[preset].type = "custom"
    /\ \E t \in SoundTypes \ {sound_type} :
          /\ sound_type' = t
          /\ custom_base' = BaseInput(t)[3]
          /\ custom_secondary' = IF t = "Choir" THEN 0 ELSE SecondaryInput(t)[3]
    /\ Rerun
    /\ UNCHANGED <<preset, duration>>

SetBase ==
    /\ PRESETS[preset].type = "custom"
    /\ \E b \in InputChoices(BaseInput(sound_type)) \ {custom_base} : custom_base' = b
    /\ Rerun
    /\ UNCHANGED <<preset, duration, sound_type, custom_secondary>>

SetSecondary ==
    /\ PRESETS[preset].type = "custom"
    /\ sound_type # "Choir"
    /\ \E v \in InputChoices(SecondaryInput(sound_type)) \ {custom_secondary} :
          custom_secondary' = v
    /\ Rerun
    /\ UNCHANGED <<preset, duration, sound_type, custom_base>>

\* a click on "Generate Audio": lines 126-160, then the rest of the script
ClickGenerate ==
    \E failure \in FailurePoints :
        LET config == SelectConfig(preset,
                          CustomConfig(preset, sound_type, custom_base, custom_secondary))
            call   == Dispatch(config, DurationSeconds(duration))
            out    == IF call.status = "raised" THEN NoCall
                      ELSE IF failure = "generate" THEN Raised("MemoryError")
                      ELSE Summary(Generate(call, NoDetune))
            bytes  == IF out.status # "returned" THEN NoCall
                      ELSE IF failure = "create_audio_file" THEN Raised("MemoryError")
                      ELSE AudioBytesOf(out)
            failed == IF call.status = "raised" THEN "dispatch"
                      ELSE IF out.status = "raised" THEN "generate"
                      ELSE IF bytes.status = "raised" THEN "create_audio_file"
                      ELSE "none"
        IN  /\ invoked' = (IF call.status = "raised" THEN NoCall ELSE call)
            /\ generated' = out
            /\ audio_bytes' = bytes
            /\ shown' = HandlerShows(failed)
            /\ script' = "completed"
            /\ UNCHANGED <<preset, duration, sound_type, custom_base, custom_secondary,
                           encVars, genVars, resVars>>

AppNext ==
    SelectPreset \/ MoveSlider \/ SetSoundType \/ SetBase \/ SetSecondary \/ ClickGenerate

(***************************************************************************)
(* ResolveSpec: the dispatch of the handler on a configuration of any      *)
(* shape, its keys "base", "delta" and "beat" each there or not.           *)
(***************************************************************************)
Absent == -1

Opt(key, v) == IF v = Absent THEN EmptyConfig ELSE [k \in {key} |-> v]

Merge(f, g) == [k \in DOMAIN f \cup DOMAIN g |-> IF k \in DOMAIN f THEN f[k] ELSE g[k]]

ResConfigs ==
    {Merge([type |-> t], Merge(Opt("base", b), Merge(Opt("delta", d), Opt("beat", e)))) :
        t \in SoundTypes,
        b \in {Absent, Hz(50), Hz(432), Hz(1000)},
        d \in {Absent, Hz(1), Hz(30)},
        e \in {Absent, 10, Hz(40)}}

ResInit ==
    /\ res_config \in ResConfigs
    /\ res_duration \in {1, 15, MAX_DURATION_MINUTES}
    /\ res_out = NoCall

ResolveCustom ==
    /\ res_out = NoCall
    /\ res_out' = Dispatch(res_config, DurationSeconds(res_duration))
    /\ UNCHANGED <<res_config, res_duration, encVars, genVars, appVars>>

(***************************************************************************)
(* The specifications.  Each leaves the variables of the others at rest.   *)
(***************************************************************************)
EncIdle ==
    /\ enc_signal = <<>>
    /\ enc_factor = 1
    /\ enc_out = NoCall
    /\ enc_out_scaled = NoCall

GenIdle ==
    /\ gen_call = NoCall
    /\ gen_out = NoCall

ResIdle ==
    /\ res_config = EmptyConfig
    /\ res_duration = 1
    /\ res_out = NoCall

EncSpecInit == EncInit /\ GenIdle /\ ResIdle /\ AppInit

EncSpec == EncSpecInit /\ [][EncNext]_vars

GenSpecInit == GenInit /\ EncIdle /\ ResIdle /\ AppInit

GenSpec == GenSpecInit /\ [][GenNext]_vars

ResolveSpecInit == ResInit /\ EncIdle /\ GenIdle /\ AppInit

ResolveNext == ResolveCustom

ResolveSpec == ResolveSpecInit /\ [][ResolveNext]_vars

Init == AppInit /\ EncIdle /\ GenIdle /\ ResIdle

Next == AppNext

Spec == Init /\ [][Next]_vars

(***************************************************************************)
(* Properties of create_audio_file, under EncSpec.                         *)
(***************************************************************************)
IsSilent(signal) == Len(signal) > 0 /\ Peak(signal).sgn = 0

NonSilent(signal) == Len(signal) > 0 /\ Peak(signal).sgn # 0

RECURSIVE IsPowerOfTwo(_)
IsPowerOfTwo(k) == k = 1 \/ (k > 1 /\ k % 2 = 0 /\ IsPowerOfTwo(k \div 2))

\* the integers nearest to a float x, |x| < 2^15: two of them when x is halfway
NearestInts(x) ==
    LET t     == IntPart16(x)
        half  == x.sgn # 0 /\ -x.exp >= 1 /\ BBit(x.man, -x.exp - 1) = 1
        below == x.sgn # 0 /\ -x.exp >= 2 /\ ~BLowZero(x.man, -x.exp - 1)
    IN  IF ~half THEN {x.sgn * t}
        ELSE IF below THEN {x.sgn * (t + 1)}
        ELSE {x.sgn * t, x.sgn * (t + 1)}

\* C1: encoding a buffer whose samples are all zero fails with SilentSignal and
\* returns no WAV bytes (no division by the zero peak, no header with a silent
\* data chunk).
C1_SilentSignalRaised ==
    (IsSilent(enc_signal) /\ enc_out.status # "none")
        => (enc_out.status = "raised" /\ enc_out.error = "SilentSignal")

\* C2 as claimed: for every non-silent buffer B and every positive factor k,
\* create_audio_file(k * B) returns the same bytes as create_audio_file(B).
C2_ScaleInvariantAnyFactor ==
    (NonSilent(enc_signal) /\ enc_out.status = "returned"
                           /\ enc_out_scaled.status = "returned")
        => enc_out_scaled.bytes = enc_out.bytes

\* C2 as amended: for every non-silent buffer B and every factor k that is a
\* power of two (k * B is then exact), create_audio_file(k * B) returns the same
\* bytes as create_audio_file(B).
C2_ScaleInvariantPowerOfTwo ==
    (NonSilent(enc_signal) /\ IsPowerOfTwo(enc_factor)
                           /\ enc_out.status = "returned"
                           /\ enc_out_scaled.status = "returned")
        => enc_out_scaled.bytes = enc_out.bytes

\* a buffer with a sample strictly between zero and the peak, scaled by 2 or 4,
\* both encodings done
C2_Witness ==
    /\ NonSilent(enc_signal)
    /\ enc_factor > 1 /\ IsPowerOfTwo(enc_factor)
    /\ enc_out.status = "returned"
    /\ enc_out_scaled.status = "returned"
    /\ \E i \in DOMAIN enc_out.scaled : enc_out.scaled[i] \notin {0, 32767, -32767}

\* C7: for a non-silent buffer each encoded sample is round(sample / peak * 32767),
\* the nearest integer and not the truncation toward zero, within
\* [-32768, 32767], and a sample of magnitude peak encodes to +32767 or -32767.
C7_RoundToNearest ==
    (NonSilent(enc_signal) /\ enc_out.status = "returned")
        => LET xs   == Samples(enc_signal)
               peak == Peak(enc_signal)
           IN  \A i \in DOMAIN xs :
                   /\ enc_out.scaled[i] \in NearestInts(FMulInt(FDiv(xs[i], peak), 32767))
                   /\ enc_out.scaled[i] \in -32768..32767
                   /\ (FAbs(xs[i]) = peak) => enc_out.scaled[i] \in {32767, -32767}


(***************************************************************************)
(* Properties of the generators, under GenSpec.                            *)
(***************************************************************************)
\* C3: every generator returns N = floor(sample_rate * duration) frames, frame n
\* evaluated at t[n] = n / sample_rate: consecutive times are 1 / sample_rate
\* apart and the last one is (N - 1) / sample_rate, less than the duration.
C3_TimeBase ==
    gen_out.status = "returned"
        => LET N == gen_out.frames
               h == gen_out.head
           IN  /\ N = (SAMPLE_RATE * gen_call.duration[1]) \div gen_call.duration[2]
               /\ \A n \in DOMAIN h : RatEq(h[n].t, <<n, SAMPLE_RATE>>)
               /\ \A n \in DOMAIN h :
                     (n + 1) \in DOMAIN h
                         => RatEq(<<h[n + 1].t[1] - h[n].t[1], h[n].t[2]>>,
                                  <<1, SAMPLE_RATE>>)
               /\ N >= 1 => /\ RatEq(gen_out.tLast, <<N - 1, SAMPLE_RATE>>)
                            /\ RatLess(gen_out.tLast, gen_call.duration)

\* C4: a generator called with a duration below one sample period
\* (sample_rate * duration < 1, a frame count of zero) fails (InvalidDuration)
\* and never returns an empty buffer.
C4_InvalidDuration ==
    (gen_out.status # "none"
        /\ gen_call.duration[1] >= 0
        /\ SAMPLE_RATE * gen_call.duration[1] < gen_call.duration[2])
        => gen_out.status = "raised"

\* C8: for every binaural call the left channel is amplitude*sin(2 pi base t[n])
\* and the right one amplitude*sin(2 pi (base + delta) t[n]) over the time base
\* t[n] = n / sample_rate, frequencies delta apart, both zero in the first frame.
C8_BinauralChannels ==
    (gen_call.fn = "generate_binaural_beat" /\ gen_out.status = "returned")
        => \A n \in DOMAIN gen_out.head :
              LET f == gen_out.head[n]
              IN  /\ f.left.amp = gen_call.amplitude /\ f.right.amp = gen_call.amplitude
                  /\ f.left.freq = gen_call.base
                  /\ f.right.freq - f.left.freq = gen_call.secondary
                  /\ f.left.t = f.right.t
                  /\ RatEq(f.left.t, <<n, SAMPLE_RATE>>)
                  /\ n = 0 => (SineIsZero(f.left) /\ SineIsZero(f.right))

C9_PresetParameters ==
    (invoked.status = "called" /\ PRESETS[preset].type # "custom")
        => LET row == PRESETS[preset]
           IN  /\ invoked.base = row.base
               /\ row.type = "choir" => invoked.fn = "generate_choir"
               /\ row.type = "binaural"
                     => (invoked.fn = "generate_binaural_beat"
                            /\ invoked.secondary = row.delta)
               /\ row.type = "isochronic"
                     => (invoked.fn = "generate_isochronic"
                            /\ invoked.secondary = row.beat)
               /\ preset = "Deep Sleep (4Hz Delta)"
                     => (invoked.fn = "generate_binaural_beat"
                            /\ invoked.base = Hz(150) /\ invoked.secondary = Hz(4))
               /\ preset = "Focus (15Hz Beta)"
                     => (invoked.fn = "generate_isochronic"
                            /\ invoked.base = Hz(432) /\ invoked.secondary = Hz(15))

\* "Deep Sleep (4Hz Delta)" generated after the custom settings were set to an
\* isochronic tone of another base
C9_Witness ==
    /\ preset = "Deep Sleep (4Hz Delta)"
    /\ invoked.status = "called"
    /\ sound_type = "Isochronic"
    /\ custom_base = Hz(1000)

\* C10: every generator call of a Generate has a base frequency above zero and a
\* duration in seconds that is a multiple of 60 between 60 and
\* MAX_DURATION_MINUTES * 60 = 7200, hence between 1 and sample_rate * 7200 frames.
C10_ValidParameters ==
    invoked.status = "called"
        => /\ invoked.base > 0
           /\ invoked.duration % 60 = 0
           /\ invoked.duration >= 60
           /\ invoked.duration <= MAX_DURATION_MINUTES * 60
           /\ MAX_DURATION_MINUTES * 60 = 7200
           /\ FrameCount(<<invoked.duration, 1>>) >= 1
           /\ FrameCount(<<invoked.duration, 1>>) <= SAMPLE_RATE * 7200
           /\ generated.status = "returned"
                 => generated.frames = FrameCount(<<invoked.duration, 1>>)

\* the longest duration under the custom settings at the lowest base frequency
C10_Witness ==
    /\ invoked.status = "called"
    /\ PRESETS[preset].type = "custom"
    /\ invoked.base = Hz(50)
    /\ invoked.duration = 7200
    /\ generated.status = "returned"
    /\ generated.frames = SAMPLE_RATE * 7200

=============================================================================
